---- MODULE Spec2Model ----
(***************************************************************************)
(* State-machine model of the two scripts of shibing624/imagefun:          *)
(*   cvnet/models/gan/gan.py                  (GAN training loop)          *)
(*   image_generation/old_style_transfer.py   (neural style transfer)      *)
(*                                                                         *)
(* Tensors are modelled by small integers.  What is kept exactly is the    *)
(* part of the framework's semantics the scripts rely on: which storage a  *)
(* tensor handle points to, which forward pass produced a value and with   *)
(* which parameters, what a gradient buffer holds and who cleared it,      *)
(* whether the autograd graph of a forward pass still has its saved        *)
(* buffers, and which exception ends the run.                              *)
(***************************************************************************)
EXTENDS Integers, Sequences, FiniteSets, TLC

VARIABLES
    \* ---- gan.py ----
    pc,           \* position of the script
    epoch,        \* loop variable of line 67
    i,            \* loop variable of line 68
    param,        \* [D |-> weight of D, G |-> weight of G]
    grad,         \* [D |-> gradient buffer, G |-> gradient buffer]
    images,       \* current real minibatch
    z,            \* current latent sample
    fake_images,  \* G(z)
    outputs,      \* the variable `outputs` (rebound at lines 76 and 83)
    graph,        \* saved buffers of this iteration's forward graph
    d_loss,       \* terms of d_loss
    g_loss,       \* terms of g_loss
    files,        \* files written so far
    raised,       \* uncaught exception that ended the run, or "none"
    pre_step,     \* parameters as they were when d_optimizer.step() began
    d_steps,      \* number of d_optimizer.step() calls that returned
    g_steps       \* number of g_optimizer.step() calls that returned

ganVars == <<pc, epoch, i, param, grad, images, z, fake_images, outputs,
             graph, d_loss, g_loss, files, raised, pre_step, d_steps, g_steps>>

VARIABLES
    \* ---- old_style_transfer.py: TransferNet ----
    style_layers,    \* self.style_layers
    content_layers,  \* self.content_layers
    seed,            \* which pretrained weights pretrained_net holds
    net,             \* self.net: the kept layers (indices into features)
    net_pc,          \* position of the TransferNet scenario
    net_X,           \* input of the forward pass
    net_out,         \* what forward returned
    \* ---- old_style_transfer.py: tv_loss ----
    tv_pc,           \* position of the tv_loss scenario
    tv_img,          \* Y_hat
    tv_out           \* what tv_loss returned

VARIABLES
    \* ---- old_style_transfer.py: main and train ----
    st_pc,           \* position of the script
    heap,            \* storage name -> the pixels it holds
    gen_data,        \* the storage gen_img.weight.data names
    contents_Y,      \* content features of the content image (line 177)
    styles_Y,        \* style features of the style image (line 180)
    styles_Y_gram,   \* their Gram matrices (line 134)
    feats_hat,       \* contents_Y_hat, styles_Y_hat (line 146)
    loss,            \* what compute_loss returned (line 147)
    X_grad,          \* gen_img.weight.grad
    lr_decays,       \* the optimizer's lr is lr * 0.1^lr_decays
    last_epoch,      \* scheduler.last_epoch
    it,              \* loop variable of line 143
    max_epochs,      \* argument of train
    lr_decay_epoch,  \* argument of train
    out_array,       \* what train returned
    ops,             \* what this iteration has done so far, in order
    opt_steps,       \* number of optimizer.step() calls that returned
    gram_inits,      \* number of times the style Gram matrices were computed
    content0         \* pixels of the content image as main loaded them

stVars == <<st_pc, heap, gen_data, contents_Y, styles_Y, styles_Y_gram, feats_hat,
            loss, X_grad, lr_decays, last_epoch, it, max_epochs, lr_decay_epoch,
            out_array, ops, opt_steps, gram_inits, content0>>

netVars == <<style_layers, content_layers, seed, net, net_pc, net_X, net_out>>

tvVars == <<tv_pc, tv_img, tv_out>>

vars == <<ganVars, netVars, tvVars, stVars>>

----------------------------------------------------------------------------
(* Bounds of the model *)

\* real pixels (after normalisation to [-1, 1]) are drawn from -MaxPixel..MaxPixel
MaxPixel == 1
\* latent samples are drawn from -MaxLatent..MaxLatent
MaxLatent == 1
\* initial (randomly initialised) weights are drawn from -MaxWeight..MaxWeight
MaxWeight == 1
\* len(data_loader): minibatches per epoch
total_step == 2

\* gan.py line 20
num_epochs == 20

Pixels == (0 - MaxPixel)..MaxPixel
Latents == (0 - MaxLatent)..MaxLatent
Weights == ((0 - MaxWeight)..MaxWeight) \ {0}

----------------------------------------------------------------------------
(* Helpers *)

Sign(x) == IF x > 0 THEN 1 ELSE IF x < 0 THEN 0 - 1 ELSE 0

Clamp(x, lo, hi) == IF x < lo THEN lo ELSE IF x > hi THEN hi ELSE x

Abs(x) == IF x < 0 THEN 0 - x ELSE x

Max(S) == CHOOSE m \in S : \A n \in S : n <= m

RECURSIVE SumSeq(_)
SumSeq(s) == IF s = <<>> THEN 0 ELSE Head(s) + SumSeq(Tail(s))

RECURSIVE Flatten(_)
\* the elements of a grid (a tuple of rows), row by row
Flatten(g) == IF g = <<>> THEN <<>> ELSE Head(g) \o Flatten(Tail(g))

\* all h x w grids over S
Grids(h, w, S) == [1..h -> [1..w -> S]]

\* the h x w grid holding v everywhere
ConstGrid(h, w, v) == [r \in 1..h |-> [c \in 1..w |-> v]]

\* A float that is a ratio of integers, or NaN (0/0, as the mean of no elements)
NaN == [num |-> 0, den |-> 0]

IsZero(q) == q.den # 0 /\ q.num = 0

IsPositive(q) == q.den # 0 /\ q.num * q.den > 0

RECURSIVE SumVals(_)
\* value held by a gradient buffer: the sum of what was accumulated into it
SumVals(buf) == IF buf = <<>> THEN 0 ELSE Head(buf).val + SumVals(Tail(buf))

----------------------------------------------------------------------------
(* gan.py: networks, loss, optimizers *)

\* D (lines 27-34) with one scalar weight: the score of input x
D(w, x) == w * x

\* G (lines 37-44) with one scalar weight: the image made from latent zz
G(w, zz) == w * zz

\* A forward pass of D: the value, and what autograd saved to differentiate it.
\* from = "real": x is a data batch; from = "fake": x = G(w_G, zz).
DForward(p, x, from, zz) ==
    [val |-> D(p.D, x), input |-> x, from |-> from, z |-> zz,
     D_used |-> p.D, G_used |-> p.G]

\* loss_fn (line 50): BCELoss of a score against a label
loss_fn(out, label) == [out |-> out, label |-> label]

\* d loss / d score.  For BCE on a sigmoid score it is (score - label).
dLoss_dOut(t) == t.out.val - t.label

\* what one loss term adds to D's gradient buffer
ContribD(t) == dLoss_dOut(t) * t.out.input

\* what one loss term adds to G's gradient buffer (only through fake_images)
ContribG(t) == dLoss_dOut(t) * t.out.D_used * t.out.z

RECURSIVE backward(_, _, _)
\* loss.backward(): accumulates (adds) into the .grad of every parameter the
\* loss depends on.  `tag` names the backward pass for the record.
backward(terms, g, tag) ==
    IF terms = <<>> THEN g
    ELSE LET t == Head(terms)
             gD == [g EXCEPT !.D = Append(@, [of |-> tag, val |-> ContribD(t)])]
             gG == IF t.out.from = "fake"
                   THEN [gD EXCEPT !.G = Append(@, [of |-> tag, val |-> ContribG(t)])]
                   ELSE gD
         IN  backward(Tail(terms), gG, tag)

\* (mutant) d_optimizer built over the parameters of both networks
d_optimizer_params_both == {"D", "G"}

\* d_optimizer = Adam(D.parameters()) (line 51)
d_optimizer_params == {"D"}

\* g_optimizer = Adam(G.parameters()) (line 52)
g_optimizer_params == {"G"}

\* optimizer.step(): Adam moves each of ITS parameters against the sign of its
\* gradient (one quantum of lr); a parameter with a zero gradient stays.
AdamStep(ps, p, g) ==
    [n \in DOMAIN p |-> IF n \in ps THEN p[n] - Sign(SumVals(g[n])) ELSE p[n]]

\* (mutant) reset_grad that forgets g_optimizer.zero_grad()
reset_grad_d_only(g) == [g EXCEPT !.D = <<>>]

\* reset_grad() (lines 60-62): zero_grad of both optimizers
reset_grad(g) == [g EXCEPT !.D = <<>>, !.G = <<>>]

\* denorm (lines 55-57): clamp((x + 1) / 2, 0, 1), in units of 1/2
denorm(x) == Clamp(x + 1, 0, 2)

\* number of positional parameters of denorm (line 55)
denorm_params == 1

\* number of positional arguments line 106 passes to denorm:
\*   save_image(denorm((images), os.path.join(...)))
save_real_denorm_args == 2

\* number of positional arguments line 110 passes to denorm
save_fake_denorm_args == 1

\* lines 113-114
SaveCheckpoints(fs) == fs \cup {<<"G.ckpt", 0, 0>>, <<"D.ckpt", 0, 0>>}

\* lines 104-114 for the epoch ep just finished: the script's next position,
\* the files on disk, the exception if one is raised.
EpochEnd(fs, ep, img, fake) ==
    IF save_real_denorm_args # denorm_params
    THEN [pc |-> "raised", raised |-> "TypeError", files |-> fs, epoch |-> ep]
    ELSE LET f1 == fs \cup {<<"real_images", ep + 1, denorm(img)>>} IN
         IF save_fake_denorm_args # denorm_params
         THEN [pc |-> "raised", raised |-> "TypeError", files |-> f1, epoch |-> ep]
         ELSE LET f2 == f1 \cup {<<"fake_images", ep + 1, denorm(fake)>>} IN
              IF ep + 1 < num_epochs
              THEN [pc |-> "load", raised |-> "none", files |-> f2, epoch |-> ep + 1]
              ELSE [pc |-> "done", raised |-> "none",
                    files |-> SaveCheckpoints(f2), epoch |-> ep]

----------------------------------------------------------------------------
(* gan.py: the script, statement by statement *)

NoOutput == [val |-> 0, input |-> 0, from |-> "none", z |-> 0, D_used |-> 0, G_used |-> 0]

GanInit ==
    /\ pc = "load"
    /\ epoch = 0
    /\ i = 0
    /\ param \in [D : Weights, G : Weights]
    /\ grad = [D |-> <<>>, G |-> <<>>]
    /\ images = 0
    /\ z = 0
    /\ fake_images = 0
    /\ outputs = NoOutput
    /\ graph = "none"
    /\ d_loss = <<>>
    /\ g_loss = <<>>
    /\ files = {}
    /\ raised = "none"
    /\ pre_step = param
    /\ d_steps = 0
    /\ g_steps = 0

\* lines 68-73: next minibatch
LoadBatch ==
    /\ pc = "load"
    /\ \E x \in Pixels : images' = x
    /\ pc' = "d_real"
    /\ UNCHANGED <<epoch, i, param, grad, z, fake_images, outputs, graph,
                   d_loss, g_loss, files, raised, pre_step, d_steps, g_steps>>

\* lines 76-78
DForwardReal ==
    /\ pc = "d_real"
    /\ outputs' = DForward(param, images, "real", 0)
    /\ d_loss' = <<loss_fn(outputs', 1)>>
    /\ graph' = "live"
    /\ pc' = "g_fwd"
    /\ UNCHANGED <<epoch, i, param, grad, images, z, fake_images, g_loss,
                   files, raised, pre_step, d_steps, g_steps>>

\* lines 81-82
GForward ==
    /\ pc = "g_fwd"
    /\ \E zz \in Latents : z' = zz /\ fake_images' = G(param.G, zz)
    /\ pc' = "d_fake"
    /\ UNCHANGED <<epoch, i, param, grad, images, outputs, graph, d_loss,
                   g_loss, files, raised, pre_step, d_steps, g_steps>>

\* lines 83-87
DForwardFake ==
    /\ pc = "d_fake"
    /\ outputs' = DForward(param, fake_images, "fake", z)
    /\ d_loss' = d_loss \o <<loss_fn(outputs', 0)>>
    /\ pc' = "d_reset"
    /\ UNCHANGED <<epoch, i, param, grad, images, z, fake_images, graph,
                   g_loss, files, raised, pre_step, d_steps, g_steps>>

\* line 88
ResetGradD ==
    /\ pc = "d_reset"
    /\ grad' = reset_grad(grad)
    /\ pc' = "d_backward"
    /\ UNCHANGED <<epoch, i, param, images, z, fake_images, outputs, graph,
                   d_loss, g_loss, files, raised, pre_step, d_steps, g_steps>>

\* line 89: d_loss.backward() -- no retain_graph, so the saved buffers of the
\* graph it walks (D(images), G(z), D(fake_images)) are freed
DBackward ==
    /\ pc = "d_backward"
    /\ grad' = backward(d_loss, grad, "d_loss")
    /\ graph' = "freed"
    /\ pc' = "d_step"
    /\ UNCHANGED <<epoch, i, param, images, z, fake_images, outputs, d_loss,
                   g_loss, files, raised, pre_step, d_steps, g_steps>>

\* line 90
DOptStep ==
    /\ pc = "d_step"
    /\ pre_step' = param
    /\ param' = AdamStep(d_optimizer_params, param, grad)
    /\ d_steps' = d_steps + 1
    /\ pc' = "g_loss"
    /\ UNCHANGED <<epoch, i, grad, images, z, fake_images, outputs, graph,
                   d_loss, g_loss, files, raised>>  /\ UNCHANGED g_steps

\* (mutant) line 93 with the discriminator called again on the fake batch
GLoss_recomputed ==
    /\ pc = "g_loss"
    /\ g_loss' = <<loss_fn(DForward(param, fake_images, "fake", z), 1)>>
    /\ pc' = "g_reset"
    /\ UNCHANGED <<epoch, i, param, grad, images, z, fake_images, outputs,
                   graph, d_loss, files, raised, pre_step, d_steps, g_steps>>

\* line 93: g_loss = loss_fn(outputs, real_labels) -- `outputs` is the tensor
\* bound at line 83; D is not called again
GLoss ==
    /\ pc = "g_loss"
    /\ g_loss' = <<loss_fn(outputs, 1)>>
    /\ pc' = "g_reset"
    /\ UNCHANGED <<epoch, i, param, grad, images, z, fake_images, outputs,
                   graph, d_loss, files, raised, pre_step, d_steps, g_steps>>

\* line 95
ResetGradG ==
    /\ pc = "g_reset"
    /\ grad' = reset_grad(grad)
    /\ pc' = "g_backward"
    /\ UNCHANGED <<epoch, i, param, images, z, fake_images, outputs, graph,
                   d_loss, g_loss, files, raised, pre_step, d_steps, g_steps>>

\* lines 96-114.  g_loss.backward() walks from the new BCE node into the graph
\* of `outputs`; if its saved buffers are freed, autograd raises RuntimeError
\* ("Trying to backward through the graph a second time") and the script ends.
\* Otherwise: g_optimizer.step(), then the next minibatch or the epoch's end.
GBackward ==
    /\ pc = "g_backward"
    /\ IF graph = "freed"
       THEN /\ pc' = "raised"
            /\ raised' = "RuntimeError"
            /\ UNCHANGED <<epoch, i, param, grad, files, g_steps>>
       ELSE LET g1 == backward(g_loss, grad, "g_loss")
                e  == EpochEnd(files, epoch, images, fake_images)
            IN  /\ grad' = g1
                /\ param' = AdamStep(g_optimizer_params, param, g1)
                /\ g_steps' = g_steps + 1
                /\ IF i + 1 < total_step
                   THEN /\ i' = i + 1
                        /\ pc' = "load"
                        /\ UNCHANGED <<epoch, files, raised>>
                   ELSE /\ i' = 0
                        /\ pc' = e.pc
                        /\ raised' = e.raised
                        /\ files' = e.files
                        /\ epoch' = e.epoch
    /\ UNCHANGED <<images, z, fake_images, outputs, graph, d_loss, g_loss,
                   pre_step, d_steps>>

notGan == <<netVars, tvVars, stVars>>

GanNext ==
    \/ LoadBatch /\ UNCHANGED notGan
    \/ DForwardReal /\ UNCHANGED notGan
    \/ GForward /\ UNCHANGED notGan
    \/ DForwardFake /\ UNCHANGED notGan
    \/ ResetGradD /\ UNCHANGED notGan
    \/ DBackward /\ UNCHANGED notGan
    \/ DOptStep /\ UNCHANGED notGan
    \/ GLoss /\ UNCHANGED notGan
    \/ ResetGradG /\ UNCHANGED notGan
    \/ GBackward /\ UNCHANGED notGan

----------------------------------------------------------------------------
(* old_style_transfer.py: floats, losses *)

\* a + b
Add(a, b) == [num |-> a.num * b.den + b.num * a.den, den |-> a.den * b.den]

\* 0.5 * a
Half(a) == [num |-> a.num, den |-> 2 * a.den]

\* Y[:, :, a-1:b, :] : rows a..b of a grid
Rows(Y, a, b) == SubSeq(Y, a, b)

\* Y[:, :, :, a-1:b] : columns a..b of a grid
Cols(Y, a, b) == [r \in 1..Len(Y) |-> SubSeq(Y[r], a, b)]

\* F.l1_loss(A, B): the mean of |A - B| over all elements; the mean of no
\* elements is NaN
l1_loss(A, B) ==
    LET a == Flatten(A)
        b == Flatten(B)
    IN  IF Len(a) = 0 THEN NaN
        ELSE [num |-> SumSeq([k \in 1..Len(a) |-> Abs(a[k] - b[k])]), den |-> Len(a)]

\* F.mse_loss(A, B): the mean of (A - B)^2 over all elements
mse_loss(A, B) ==
    LET a == Flatten(A)
        b == Flatten(B)
    IN  IF Len(a) = 0 THEN NaN
        ELSE [num |-> SumSeq([k \in 1..Len(a) |-> (a[k] - b[k]) * (a[k] - b[k])]),
              den |-> Len(a)]

\* tv_loss (lines 93-102)
tv_loss(Y_hat) ==
    LET H == Len(Y_hat)
        W == Len(Y_hat[1])
    IN  Half(Add(l1_loss(Rows(Y_hat, 2, H), Rows(Y_hat, 1, H - 1)),
                 l1_loss(Cols(Y_hat, 2, W), Cols(Y_hat, 1, W - 1))))

\* content_loss (lines 76-78)
content_loss(Y_hat, Y) == mse_loss(Y_hat, Y)

\* gram (lines 81-85) of a one-channel activation map: the 1x1 matrix
\* X X^T / (num_channels * n)
gram(X) ==
    LET x == Flatten(X)
    IN  [num |-> SumSeq([k \in 1..Len(x) |-> x[k] * x[k]]), den |-> 1 * Len(x)]

\* style_loss (lines 88-90): mse_loss of two 1x1 matrices
style_loss(Y_hat, gram_Y) ==
    LET g == gram(Y_hat)
        d == g.num * gram_Y.den - gram_Y.num * g.den
    IN  [num |-> d * d, den |-> (g.den * gram_Y.den) * (g.den * gram_Y.den)]

\* argparse defaults (lines 197-199)
content_weight == 1

style_weight == 1000

tv_weight == 10

MinOf(a, b) == IF a < b THEN a ELSE b

\* compute_loss (lines 105-116).  Each term is kept as weight and value; loss
\* is the sum of all the terms.
compute_loss(X, contents_Y_hat, styles_Y_hat, cY, sY_gram, cw, sw, tw) ==
    LET contents_l == [k \in 1..MinOf(Len(contents_Y_hat), Len(cY)) |->
                          [w |-> cw, v |-> content_loss(contents_Y_hat[k], cY[k])]]
        styles_l   == [k \in 1..MinOf(Len(styles_Y_hat), Len(sY_gram)) |->
                          [w |-> sw, v |-> style_loss(styles_Y_hat[k], sY_gram[k])]]
        tv_l       == [w |-> tw, v |-> tv_loss(X)]
    IN  [contents_l |-> contents_l, styles_l |-> styles_l, tv_l |-> tv_l,
         loss |-> styles_l \o contents_l \o <<tv_l>>]

----------------------------------------------------------------------------
(* old_style_transfer.py: TransferNet *)

\* len(torchvision.models.vgg19().features)
num_features == 37

\* features[k] is a Conv2d at these indices,
ConvLayers == {0, 2, 5, 7, 10, 12, 14, 16, 19, 21, 23, 25, 28, 30, 32, 34}

\* a MaxPool2d at these,
PoolLayers == {4, 9, 18, 27, 36}

\* and nn.ReLU(inplace=True) after every Conv2d
LayerKind(k) ==
    IF k \in ConvLayers THEN "conv" ELSE IF k \in PoolLayers THEN "pool" ELSE "relu"

\* pretrained weight and bias of the convolution at index k (one channel, 1x1)
ConvW(s, k) == IF (k + s) % 3 = 0 THEN 0 - 1 ELSE 1

ConvB(s, k) == ((k \div 2 + s) % 3) - 1

\* the value features[k] computes from one pixel a.  The convolution is 1x1;
\* the pooling window is one pixel (the model's images are too small to halve).
LayerPixel(s, k, a) ==
    IF LayerKind(k) = "conv" THEN ConvW(s, k) * a + ConvB(s, k)
    ELSE IF LayerKind(k) = "relu" THEN (IF a < 0 THEN 0 ELSE a)
    ELSE a

RECURSIVE LayerRow(_, _, _)
LayerRow(s, k, row) ==
    IF row = <<>> THEN <<>>
    ELSE <<LayerPixel(s, k, Head(row))>> \o LayerRow(s, k, Tail(row))

RECURSIVE LayerValue(_, _, _)
\* the value features[k] computes from grid g
LayerValue(s, k, g) ==
    IF g = <<>> THEN <<>>
    ELSE <<LayerRow(s, k, Head(g))>> \o LayerValue(s, k, Tail(g))

\* X = module(X): an in-place ReLU writes its result into the tensor it was
\* given and returns that tensor; every other layer returns a new tensor.
\* st.cells are the tensors alive in this pass, st.cur the one X names.
ApplyLayer(s, k, st) ==
    IF LayerKind(k) = "relu"
    THEN [st EXCEPT !.cells[st.cur] = LayerValue(s, k, @)]
    ELSE [st EXCEPT !.cells = Append(@, LayerValue(s, k, st.cells[st.cur])),
                    !.cur = Len(st.cells) + 1]

\* get_net (lines 54-60): features[0 .. max(content_layers + style_layers)]
get_net(sl, cl) == [k \in 1..(Max(cl \cup sl) + 1) |-> k - 1]

\* one turn of the loop of forward (lines 67-72) at position pos
forward_step(s, layers, pos, st, sl, cl) ==
    LET a == ApplyLayer(s, layers[pos + 1], st)
        b == IF pos \in sl THEN [a EXCEPT !.styles = Append(@, a.cur)] ELSE a
    IN  IF pos \in cl THEN [b EXCEPT !.contents = Append(@, b.cur)] ELSE b

RECURSIVE forward_loop(_, _, _, _, _, _)
\* the loop of forward (lines 67-72) from position pos on; X always names a
\* live tensor
forward_loop(s, layers, pos, st, sl, cl) ==
    IF pos >= Len(layers) THEN st
    ELSE LET a == forward_step(s, layers, pos, st, sl, cl)
         IN  IF a.cur \in DOMAIN a.cells
             THEN forward_loop(s, layers, pos + 1, a, sl, cl)
             ELSE a

\* forward (lines 62-73): the two lists it returns, read when it returns
forward(s, layers, X, sl, cl) ==
    LET end == forward_loop(s, layers, 0,
                   [cells |-> <<X>>, cur |-> 1, styles |-> <<>>, contents |-> <<>>],
                   sl, cl)
    IN  [contents |-> [k \in 1..Len(end.contents) |-> end.cells[end.contents[k]]],
         styles   |-> [k \in 1..Len(end.styles) |-> end.cells[end.styles[k]]]]

\* the whole pretrained network, nothing cut off
all_features == [k \in 1..num_features |-> k - 1]

----------------------------------------------------------------------------
(* Bounds of the TransferNet and tv_loss scenarios *)

\* pretrained weight sets 0..MaxSeed
MaxSeed == 1
\* input pixels of the TransferNet scenario: -MaxAct..MaxAct
MaxAct == 1
\* tv_loss images: heights 1..MaxH, widths 1..MaxW, pixels 0..MaxTvPixel
MaxH == 2
MaxW == 3
MaxTvPixel == 1

\* layer indices the declared sets are drawn from
CandidateLayers == {0, 1, 5, 25, 28, 36}

\* the sets of the source (lines 49-50)
SourceStyleLayers == {0, 5, 10, 19, 28}

SourceContentLayers == {25}

LayerSets == {S \in SUBSET CandidateLayers : Cardinality(S) <= 2} \cup {SourceStyleLayers}

NoFeatures == [contents |-> <<>>, styles |-> <<>>]

----------------------------------------------------------------------------
(* Scenarios *)

GanIdle ==
    /\ pc = "off"
    /\ epoch = 0
    /\ i = 0
    /\ param = [D |-> 1, G |-> 1]
    /\ grad = [D |-> <<>>, G |-> <<>>]
    /\ images = 0
    /\ z = 0
    /\ fake_images = 0
    /\ outputs = NoOutput
    /\ graph = "none"
    /\ d_loss = <<>>
    /\ g_loss = <<>>
    /\ files = {}
    /\ raised = "none"
    /\ pre_step = param
    /\ d_steps = 0
    /\ g_steps = 0

NetIdle ==
    /\ style_layers = SourceStyleLayers
    /\ content_layers = SourceContentLayers
    /\ seed = 0
    /\ net = <<>>
    /\ net_pc = "off"
    /\ net_X = <<>>
    /\ net_out = NoFeatures

TvIdle ==
    /\ tv_pc = "off"
    /\ tv_img = <<>>
    /\ tv_out = NaN

NoLoss == [contents_l |-> <<>>, styles_l |-> <<>>, tv_l |-> [w |-> 0, v |-> NaN],
           loss |-> <<>>]

StIdle ==
    /\ st_pc = "off"
    /\ heap = [content_X |-> <<>>, style_X |-> <<>>, gen |-> <<>>]
    /\ gen_data = "none"
    /\ contents_Y = <<>>
    /\ styles_Y = <<>>
    /\ styles_Y_gram = <<>>
    /\ feats_hat = NoFeatures
    /\ loss = NoLoss
    /\ X_grad = <<>>
    /\ lr_decays = 0
    /\ last_epoch = 0
    /\ it = 0
    /\ max_epochs = 0
    /\ lr_decay_epoch = 1
    /\ out_array = <<>>
    /\ ops = <<>>
    /\ opt_steps = 0
    /\ gram_inits = 0
    /\ content0 = <<>>

\* ---- TransferNet: construct, then one forward pass ----

NetInit ==
    /\ style_layers \in LayerSets
    /\ content_layers \in LayerSets
    /\ style_layers \cup content_layers # {}
    /\ seed \in 0..MaxSeed
    /\ net = <<>>
    /\ net_pc = "construct"
    /\ net_X \in Grids(1, 1, (0 - MaxAct)..MaxAct)
    /\ net_out = NoFeatures

\* TransferNet() (lines 46-52)
Construct ==
    /\ net_pc = "construct"
    /\ net' = get_net(style_layers, content_layers)
    /\ net_pc' = "forward"
    /\ UNCHANGED <<style_layers, content_layers, seed, net_X, net_out>>

\* net(X) (lines 62-73)
NetForward ==
    /\ net_pc = "forward"
    /\ net_out' = forward(seed, net, net_X, style_layers, content_layers)
    /\ net_pc' = "done"
    /\ UNCHANGED <<style_layers, content_layers, seed, net, net_X>>

NetNext ==
    \/ Construct /\ UNCHANGED <<ganVars, tvVars, stVars>>
    \/ NetForward /\ UNCHANGED <<ganVars, tvVars, stVars>>

NetSpecInit == GanIdle /\ TvIdle /\ StIdle /\ NetInit

SpecNet == NetSpecInit /\ [][NetNext]_vars

\* ---- tv_loss on one image ----

TvInit ==
    /\ tv_pc = "call"
    /\ \E h \in 1..MaxH : \E w \in 1..MaxW : tv_img \in Grids(h, w, 0..MaxTvPixel)
    /\ tv_out = NaN

\* tv_loss(Y_hat) (lines 93-102)
TvLoss ==
    /\ tv_pc = "call"
    /\ tv_out' = tv_loss(tv_img)
    /\ tv_pc' = "returned"
    /\ UNCHANGED tv_img

TvNext == TvLoss /\ UNCHANGED <<ganVars, netVars, stVars>>

TvSpecInit == GanIdle /\ NetIdle /\ StIdle /\ TvInit

SpecTV == TvSpecInit /\ [][TvNext]_vars

\* ---- old_style_transfer.py: main, then train ----

\* train runs 0..MaxEpochs iterations
MaxEpochs == 3
\* and decays lr every 1..MaxDecayEpoch iterations
MaxDecayEpoch == 2

\* content images main may load (normalised pixels, 2 x 2)
ContentImages ==
    {ConstGrid(2, 2, 0), ConstGrid(2, 2, 1), <<<<0, 1>>, <<1, 0>>>>, <<<<0, 0>>, <<1, 1>>>>}

\* style images main may load
StyleImages == {ConstGrid(2, 2, 1), <<<<1, 0>>, <<0, 1>>>>}

\* gradients of the loss with respect to the image that autograd may return:
\* their value depends on the pretrained weights, so backward may pick any
Grads == {ConstGrid(2, 2, 0), ConstGrid(2, 2, 1), <<<<0 - 1, 0>>, <<0, 1>>>>}

AddGrid(a, b) == [r \in 1..Len(a) |-> [c \in 1..Len(a[r]) |-> a[r][c] + b[r][c]]]

\* (mutant) a StepLR that decays one scheduler step early
StepLR_get_lr_early(le, step_size, decays) ==
    IF (le + 1) % step_size # 0 THEN decays ELSE decays + 1

\* StepLR.get_lr after last_epoch became le (scheduler.step(), line 154):
\* the lr is multiplied by gamma = 0.1 when le is a multiple of step_size
StepLR_get_lr(le, step_size, decays) ==
    IF le = 0 \/ le % step_size # 0 THEN decays ELSE decays + 1

\* Adam's step on the image: every pixel moves one quantum of the current lr
\* against the sign of its gradient; a pixel with a zero gradient stays
AdamImage(img, g) ==
    [r \in 1..Len(img) |-> [c \in 1..Len(img[r]) |-> img[r][c] - Sign(g[r][c])]]

IterationOrder ==
    <<"forward", "compute_loss", "zero_grad", "backward", "optimizer.step",
      "scheduler.step">>

StInit ==
    /\ st_pc = "construct"
    /\ \E c \in ContentImages : \E sty \in StyleImages :
           heap = [content_X |-> c, style_X |-> sty, gen |-> <<>>]
    /\ gen_data = "none"
    /\ contents_Y = <<>>
    /\ styles_Y = <<>>
    /\ styles_Y_gram = <<>>
    /\ feats_hat = NoFeatures
    /\ loss = NoLoss
    /\ X_grad = <<>>
    /\ lr_decays = 0
    /\ last_epoch = 0
    /\ it = 0
    /\ max_epochs \in 0..MaxEpochs
    /\ lr_decay_epoch \in 1..MaxDecayEpoch
    /\ out_array = <<>>
    /\ ops = <<>>
    /\ opt_steps = 0
    /\ gram_inits = 0
    /\ content0 = heap.content_X
    /\ style_layers = SourceStyleLayers
    /\ content_layers = SourceContentLayers
    /\ seed \in 0..MaxSeed
    /\ net = <<>>
    /\ net_pc = "off"
    /\ net_X = <<>>
    /\ net_out = NoFeatures

\* line 174: net = TransferNet()
StConstruct ==
    /\ st_pc = "construct"
    /\ net' = get_net(style_layers, content_layers)
    /\ st_pc' = "content_features"
    /\ UNCHANGED <<heap, gen_data, contents_Y, styles_Y, styles_Y_gram, feats_hat,
                   loss, X_grad, lr_decays, last_epoch, it, max_epochs,
                   lr_decay_epoch, out_array, ops, opt_steps, gram_inits, content0>>
    /\ UNCHANGED <<style_layers, content_layers, seed, net_pc, net_X, net_out>>

\* lines 176-177: contents_Y, _ = net(content_X)
ContentFeatures ==
    /\ st_pc = "content_features"
    /\ contents_Y' = forward(seed, net, heap.content_X, style_layers, content_layers).contents
    /\ st_pc' = "style_features"
    /\ UNCHANGED <<heap, gen_data, styles_Y, styles_Y_gram, feats_hat,
                   loss, X_grad, lr_decays, last_epoch, it, max_epochs,
                   lr_decay_epoch, out_array, ops, opt_steps, gram_inits, content0>>
    /\ UNCHANGED netVars

\* lines 179-180: _, styles_Y = net(style_X)
StyleFeatures ==
    /\ st_pc = "style_features"
    /\ styles_Y' = forward(seed, net, heap.style_X, style_layers, content_layers).styles
    /\ st_pc' = "get_inits"
    /\ UNCHANGED <<heap, gen_data, contents_Y, styles_Y_gram, feats_hat,
                   loss, X_grad, lr_decays, last_epoch, it, max_epochs,
                   lr_decay_epoch, out_array, ops, opt_steps, gram_inits, content0>>
    /\ UNCHANGED netVars

\* line 141, get_inits (lines 130-135).  GeneratedImage allocates its own
\* storage (torch.rand: values in [0, 1), pixel 0 in the model's units);
\* `gen_img.weight.data = X.data` then makes the parameter name the storage
\* of X, the caller's content_X; the optimizer is built over that parameter.
GetInits ==
    /\ st_pc = "get_inits"
    /\ heap' = [heap EXCEPT !.gen = ConstGrid(Len(heap.content_X), Len(heap.content_X[1]), 0)]
    /\ gen_data' = "content_X"
    /\ X_grad' = ConstGrid(Len(heap.content_X), Len(heap.content_X[1]), 0)
    /\ lr_decays' = 0
    /\ styles_Y_gram' = [k \in 1..Len(styles_Y) |-> gram(styles_Y[k])]
    /\ gram_inits' = gram_inits + 1
    /\ st_pc' = "scheduler"
    /\ UNCHANGED <<contents_Y, styles_Y, feats_hat, loss, last_epoch, it, max_epochs,
                   lr_decay_epoch, out_array, ops, opt_steps, content0>>
    /\ UNCHANGED netVars

\* line 142: StepLR(optimizer, lr_decay_epoch, gamma=0.1)
SchedulerInit ==
    /\ st_pc = "scheduler"
    /\ last_epoch' = 0
    /\ st_pc' = "loop"
    /\ UNCHANGED <<heap, gen_data, contents_Y, styles_Y, styles_Y_gram, feats_hat,
                   loss, X_grad, lr_decays, it, max_epochs,
                   lr_decay_epoch, out_array, ops, opt_steps, gram_inits, content0>>
    /\ UNCHANGED netVars

\* line 143: for i in range(max_epochs); line 161 when the range is exhausted.
\* X.detach() shares the storage of X.
LoopHead ==
    /\ st_pc = "loop"
    /\ IF it < max_epochs
       THEN /\ st_pc' = "forward"
            /\ ops' = <<>>
            /\ UNCHANGED out_array
       ELSE /\ st_pc' = "returned"
            /\ out_array' = heap[gen_data]
            /\ UNCHANGED ops
    /\ UNCHANGED <<heap, gen_data, contents_Y, styles_Y, styles_Y_gram, feats_hat,
                   loss, X_grad, lr_decays, last_epoch, it, max_epochs,
                   lr_decay_epoch, opt_steps, gram_inits, content0>>
    /\ UNCHANGED netVars

\* line 146: contents_Y_hat, styles_Y_hat = net(X)
TrainForward ==
    /\ st_pc = "forward"
    /\ feats_hat' = forward(seed, net, heap[gen_data], style_layers, content_layers)
    /\ ops' = Append(ops, "forward")
    /\ st_pc' = "compute_loss"
    /\ UNCHANGED <<heap, gen_data, contents_Y, styles_Y, styles_Y_gram,
                   loss, X_grad, lr_decays, last_epoch, it, max_epochs,
                   lr_decay_epoch, out_array, opt_steps, gram_inits, content0>>
    /\ UNCHANGED netVars

\* (mutant) an iteration that computes the style Gram matrices again, from
\* the activations of the image being synthesized
ComputeLoss_regram ==
    /\ st_pc = "compute_loss"
    /\ styles_Y_gram' = [k \in 1..Len(feats_hat.styles) |-> gram(feats_hat.styles[k])]
    /\ loss' = compute_loss(heap[gen_data], feats_hat.contents, feats_hat.styles,
                            contents_Y, styles_Y_gram',
                            content_weight, style_weight, tv_weight)
    /\ ops' = Append(ops, "compute_loss")
    /\ st_pc' = "zero_grad"
    /\ UNCHANGED <<heap, gen_data, contents_Y, styles_Y, feats_hat,
                   X_grad, lr_decays, last_epoch, it, max_epochs,
                   lr_decay_epoch, out_array, opt_steps, gram_inits, content0>>
    /\ UNCHANGED netVars

\* lines 147-149
ComputeLoss ==
    /\ st_pc = "compute_loss"
    /\ loss' = compute_loss(heap[gen_data], feats_hat.contents, feats_hat.styles,
                            contents_Y, styles_Y_gram,
                            content_weight, style_weight, tv_weight)
    /\ ops' = Append(ops, "compute_loss")
    /\ st_pc' = "zero_grad"
    /\ UNCHANGED <<heap, gen_data, contents_Y, styles_Y, styles_Y_gram, feats_hat,
                   X_grad, lr_decays, last_epoch, it, max_epochs,
                   lr_decay_epoch, out_array, opt_steps, gram_inits, content0>>
    /\ UNCHANGED netVars

\* line 151
ZeroGrad ==
    /\ st_pc = "zero_grad"
    /\ X_grad' = ConstGrid(Len(X_grad), Len(X_grad[1]), 0)
    /\ ops' = Append(ops, "zero_grad")
    /\ st_pc' = "backward"
    /\ UNCHANGED <<heap, gen_data, contents_Y, styles_Y, styles_Y_gram, feats_hat,
                   loss, lr_decays, last_epoch, it, max_epochs,
                   lr_decay_epoch, out_array, opt_steps, gram_inits, content0>>
    /\ UNCHANGED netVars

\* line 152: loss.backward(retain_graph=True) adds the gradient to X.grad
Backward ==
    /\ st_pc = "backward"
    /\ \E g \in Grads : X_grad' = AddGrid(X_grad, g)
    /\ ops' = Append(ops, "backward")
    /\ st_pc' = "optimizer.step"
    /\ UNCHANGED <<heap, gen_data, contents_Y, styles_Y, styles_Y_gram, feats_hat,
                   loss, lr_decays, last_epoch, it, max_epochs,
                   lr_decay_epoch, out_array, opt_steps, gram_inits, content0>>
    /\ UNCHANGED netVars

\* line 153: optimizer.step() updates, in place, the storage its parameter names
OptimizerStep ==
    /\ st_pc = "optimizer.step"
    /\ heap' = [heap EXCEPT ![gen_data] = AdamImage(@, X_grad)]
    /\ opt_steps' = opt_steps + 1
    /\ ops' = Append(ops, "optimizer.step")
    /\ st_pc' = "scheduler.step"
    /\ UNCHANGED <<gen_data, contents_Y, styles_Y, styles_Y_gram, feats_hat,
                   loss, X_grad, lr_decays, last_epoch, it, max_epochs,
                   lr_decay_epoch, out_array, gram_inits, content0>>
    /\ UNCHANGED netVars

\* line 154: scheduler.step(); then the next turn of the loop
SchedulerStep ==
    /\ st_pc = "scheduler.step"
    /\ last_epoch' = last_epoch + 1
    /\ lr_decays' = StepLR_get_lr(last_epoch', lr_decay_epoch, lr_decays)
    /\ ops' = Append(ops, "scheduler.step")
    /\ it' = it + 1
    /\ st_pc' = "loop"
    /\ UNCHANGED <<heap, gen_data, contents_Y, styles_Y, styles_Y_gram, feats_hat,
                   loss, X_grad, max_epochs,
                   lr_decay_epoch, out_array, opt_steps, gram_inits, content0>>
    /\ UNCHANGED netVars

notSt == <<ganVars, tvVars>>

StNext ==
    \/ StConstruct /\ UNCHANGED notSt
    \/ ContentFeatures /\ UNCHANGED notSt
    \/ StyleFeatures /\ UNCHANGED notSt
    \/ GetInits /\ UNCHANGED notSt
    \/ SchedulerInit /\ UNCHANGED notSt
    \/ LoopHead /\ UNCHANGED notSt
    \/ TrainForward /\ UNCHANGED notSt
    \/ ComputeLoss /\ UNCHANGED notSt
    \/ ZeroGrad /\ UNCHANGED notSt
    \/ Backward /\ UNCHANGED notSt
    \/ OptimizerStep /\ UNCHANGED notSt
    \/ SchedulerStep /\ UNCHANGED notSt

StSpecInit == GanIdle /\ TvIdle /\ StInit

SpecST == StSpecInit /\ [][StNext]_vars

\* ---- gan.py ----

GanSpecInit == GanInit /\ NetIdle /\ TvIdle /\ StIdle

SpecGAN == GanSpecInit /\ [][GanNext]_vars

----------------------------------------------------------------------------
(* Claims about gan.py, checked under SpecGAN *)

Ended == pc \in {"raised", "done"}

Written(name, e) == \E f \in files : f[1] = name /\ f[2] = e

\* C1: a run of the script writes, for every epoch e in 1..num_epochs, the
\* grids real_images_e.png and fake_images_e.png, and after the last epoch
\* the checkpoints G.ckpt and D.ckpt: stated of the run once it has ended.
C1_AllFilesWritten ==
    Ended =>
        /\ \A e \in 1..num_epochs :
               Written("real_images", e) /\ Written("fake_images", e)
        /\ Written("G.ckpt", 0)
        /\ Written("D.ckpt", 0)

\* C2: the generator step backpropagates g_loss successfully and applies one
\* generator update, so at every iteration boundary and at the end of the run
\* there have been as many generator updates as discriminator updates, and
\* no backward pass has raised.
C2_OneGeneratorUpdatePerIteration ==
    /\ raised # "RuntimeError"
    /\ pc \in {"load", "raised", "done"} => g_steps = d_steps

\* C3 (as claimed): the score g_loss is computed from was produced by D with
\* the parameters D has after this iteration's d_optimizer.step().
C3_ScoreFromUpdatedD ==
    pc \in {"g_reset", "g_backward"} => g_loss[1].out.D_used = param.D

\* C3 (amended): the score g_loss is computed from is the tensor `outputs` of
\* line 83, produced on the fake batch by D with the parameters D had BEFORE
\* this iteration's d_optimizer.step(); it is not recomputed after the update.
C3_ScoreFromStaleD ==
    pc \in {"g_reset", "g_backward"} =>
        /\ g_loss[1].out = outputs
        /\ outputs.from = "fake"
        /\ outputs.input = fake_images
        /\ g_loss[1].label = 1
        /\ g_loss[1].out.D_used = pre_step.D

\* C3 witness: g_loss has been computed and the discriminator step did change D
C3_Witness ==
    /\ pc = "g_reset"
    /\ param.D # pre_step.D
    /\ g_loss[1].out.D_used # param.D

\* C4: d_optimizer.step() leaves G's parameters as they were and
\* g_optimizer.step() leaves D's parameters as they were.
C4_StepsChangeOwnParameters ==
    [][ /\ (pc = "d_step" => param'.G = param.G)
        /\ (pc = "g_backward" => param'.D = param.D) ]_vars

\* C4 witness: the discriminator step has changed D although the backward
\* pass of d_loss left a non-zero gradient on G, and G is unchanged
C4_Witness ==
    /\ pc = "g_loss"
    /\ SumVals(grad.G) # 0
    /\ param.D # pre_step.D
    /\ param.G = pre_step.G

\* C5: when a backward pass starts, both gradient buffers are cleared, and
\* what d_optimizer.step() applies is exactly what d_loss.backward()
\* accumulated (one contribution per term of d_loss, none from elsewhere).
C5_GradsClearedBeforeBackward ==
    /\ pc \in {"d_backward", "g_backward"} => grad.D = <<>> /\ grad.G = <<>>
    /\ pc = "d_step" =>
          /\ Len(grad.D) = Len(d_loss)
          /\ \A k \in 1..Len(grad.D) : grad.D[k].of = "d_loss"
    /\ pc = "g_loss" => \A k \in 1..Len(grad.G) : grad.G[k].of = "d_loss"

\* C5 witness: g_loss.backward() is about to start with both buffers cleared,
\* after d_loss.backward() had filled them (the D step moved D)
C5_Witness ==
    /\ pc = "g_backward"
    /\ grad.D = <<>> /\ grad.G = <<>>
    /\ param.D # pre_step.D

----------------------------------------------------------------------------
(* Claims about TransferNet, checked under SpecNet *)

\* C6: TransferNet keeps exactly layers 0..max(content_layers + style_layers),
\* and forward returns one activation per declared style index and one per
\* declared content index, in ascending layer order, each equal to the
\* activation the same pass over the untruncated network returns for it.
C6_TruncationChangesNothing ==
    net_pc = "done" =>
        /\ net = [k \in 1..(Max(style_layers \cup content_layers) + 1) |-> k - 1]
        /\ Len(net_out.styles) = Cardinality(style_layers)
        /\ Len(net_out.contents) = Cardinality(content_layers)
        /\ net_out = forward(seed, all_features, net_X, style_layers, content_layers)

----------------------------------------------------------------------------
(* Claims about tv_loss, checked under SpecTV *)

AllEqual(Y) == \A r \in 1..Len(Y) : \A c \in 1..Len(Y[r]) : Y[r][c] = Y[1][1]

HasNeighbourDifference(Y) ==
    \E r \in 1..Len(Y) : \E c \in 1..Len(Y[r]) :
        \/ r < Len(Y) /\ Y[r + 1][c] # Y[r][c]
        \/ c < Len(Y[r]) /\ Y[r][c + 1] # Y[r][c]

\* C9: for an image of any height >= 1 and width >= 1, tv_loss returns zero
\* when all pixels are equal and a strictly positive value when some pixel
\* differs from its horizontal or vertical neighbour.
C9_TvZeroOrPositive ==
    tv_pc = "returned" =>
        /\ AllEqual(tv_img) => IsZero(tv_out)
        /\ HasNeighbourDifference(tv_img) => IsPositive(tv_out)

----------------------------------------------------------------------------
(* Claims about train, checked under SpecST *)

InLoop ==
    st_pc \in {"loop", "forward", "compute_loss", "zero_grad", "backward",
               "optimizer.step", "scheduler.step"}

\* C7: train runs exactly max_epochs iterations and returns; an iteration is
\* forward, compute_loss, zero_grad, backward, one optimizer.step, one
\* scheduler.step, in this order; and the k-th optimizer.step (k = it + 1)
\* runs with lr * 0.1^floor((k - 1) / lr_decay_epoch).
C7_IterationsOrderAndLr ==
    /\ st_pc = "optimizer.step" => lr_decays = it \div lr_decay_epoch
    /\ InLoop => ops = SubSeq(IterationOrder, 1, Len(ops))
    /\ (st_pc = "loop" /\ it > 0) => ops = IterationOrder
    /\ st_pc = "loop" => opt_steps = it /\ last_epoch = it
    /\ InLoop => it <= max_epochs
    /\ st_pc = "returned" =>
           it = max_epochs /\ opt_steps = max_epochs /\ last_epoch = max_epochs

\* C7 witness: the third optimizer.step is about to run with the lr decayed once
C7_Witness ==
    /\ st_pc = "optimizer.step"
    /\ it = 2
    /\ lr_decay_epoch = 2
    /\ lr_decays = 1
    /\ ops = SubSeq(IterationOrder, 1, 4)

\* C8: the Gram matrices of the style image are computed once, by get_inits
\* before the first iteration, and no later step of train changes them: in
\* the loop and after it they are the Gram matrices of styles_Y.
C8_StyleGramsFixed ==
    /\ [][st_pc # "get_inits" =>
            (styles_Y_gram' = styles_Y_gram /\ gram_inits' = gram_inits)]_vars
    /\ []((InLoop \/ st_pc = "returned") =>
            /\ gram_inits = 1
            /\ styles_Y_gram = [k \in 1..Len(styles_Y) |-> gram(styles_Y[k])]
            /\ Len(styles_Y_gram) = Cardinality(style_layers))

\* C8 witness: train has returned after two or more optimizer steps that
\* changed the image, and the style Gram matrices are not all zero
C8_Witness ==
    /\ st_pc = "returned"
    /\ opt_steps >= 2
    /\ out_array # content0
    /\ gram_inits = 1
    /\ \E k \in 1..Len(styles_Y_gram) : styles_Y_gram[k].num > 0

\* C10: train does not modify the content image tensor of its caller: main's
\* content_X always holds the pixels it was loaded with.
C10_ContentImageUntouched ==
    heap.content_X = content0

====
